---- MODULE Spec2Model ----
(***************************************************************************)
(* A model of the meme-recommendation bot of main.py: the per-channel      *)
(* conversation buffer, the mood analyzer with its keyword fallback, the   *)
(* GIF selector with its static fallback list, and the message handler     *)
(* with the automatic and the manual recommendation paths.                 *)
(*                                                                         *)
(* Text is modelled as sequences of one-character strings, so that         *)
(* lower-casing, joining and substring search are computed as Python       *)
(* computes them.  Time is measured in delivered events: the event loop's  *)
(* clock reads `now`, and every recorded message advances it by one.       *)
(***************************************************************************)
EXTENDS Integers, Sequences, FiniteSets, TLC

VARIABLES
    GEMINI_API_KEY,         \* main.py:18, only its presence matters
    TENOR_API_KEY,          \* main.py:19, only its presence matters
    conversation_contexts,  \* main.py:41, channel id -> list of entries
    now,                    \* the event loop's clock (main.py:185)
    recorded,               \* history: per channel, every entry recorded since its last clear
    out,                    \* the last message handed to ctx.send by a buffer command
    tasks,                  \* the on_message coroutines in flight
    call                    \* one call of a pure operation: its inputs and its result

vars == <<GEMINI_API_KEY, TENOR_API_KEY, conversation_contexts, now, recorded,
          out, tasks, call>>

----------------------------------------------------------------------------
(* Bounds of the model *)

\* records delivered in a run of the buffer specification
MaxRecords == 11

(* Program constants *)

MAX_CONTEXT_MESSAGES == 10

\* the [-5:] slice of show_context, auto_recommend_meme and recommend_meme
CONTEXT_WINDOW == 5

Channels == {1, 2}

----------------------------------------------------------------------------
(* Text *)

UPPER == <<"A", "B", "C", "D", "E", "F", "G", "H", "I", "J", "K", "L", "M",
           "N", "O", "P", "Q", "R", "S", "T", "U", "V", "W", "X", "Y", "Z">>
LOWER == <<"a", "b", "c", "d", "e", "f", "g", "h", "i", "j", "k", "l", "m",
           "n", "o", "p", "q", "r", "s", "t", "u", "v", "w", "x", "y", "z">>

\* str.lower() on one character
lower_char(ch) ==
    IF \E i \in 1..Len(UPPER) : UPPER[i] = ch
    THEN LOWER[CHOOSE i \in 1..Len(UPPER) : UPPER[i] = ch]
    ELSE ch

\* str.lower()
lower(text) == [i \in 1..Len(text) |-> lower_char(text[i])]

\* sep.join(parts)
RECURSIVE join(_, _)
join(sep, parts) ==
    IF Len(parts) = 0 THEN <<>>
    ELSE IF Len(parts) = 1 THEN parts[1]
    ELSE parts[1] \o sep \o join(sep, Tail(parts))

\* word in text
contains(text, word) ==
    \E i \in 1..(Len(text) - Len(word) + 1) :
        SubSeq(text, i, i + Len(word) - 1) = word

\* mutant of last_n: s[:n], the oldest entries kept
first_n(s, n) ==
    IF Len(s) <= n THEN s ELSE SubSeq(s, 1, n)

\* s[-n:] for n >= 1
last_n(s, n) ==
    IF Len(s) <= n THEN s ELSE SubSeq(s, Len(s) - n + 1, Len(s))

Txt_hi == <<"h", "i">>
Txt_REKT == <<"R", "E", "K", "T">>
Txt_win == <<"w", "i", "n">>
Txt_wtf == <<"w", "t", "f">>
Txt_rekt_win == <<"r", "e", "k", "t", " ", "w", "i", "n">>
Txt_wtf_win == <<"w", "t", "f", " ", "w", "i", "n">>
Txt_Window == <<"W", "i", "n", "d", "o", "w">>
Txt_w == <<"w">>
Txt_in == <<"i", "n">>
\* the example of the specification's testable properties
Txt_spec_example ==
    <<"T", "h", "a", "t", " ", "w", "a", "s", " ", "a", "b", "s", "o", "l",
      "u", "t", "e", "l", "y", " ", "s", "a", "v", "a", "g", "e", ",", " ",
      "y", "o", "u", " ", "g", "o", "t", " ", "r", "o", "a", "s", "t", "e",
      "d">>

\* command messages
Cmd_meme == <<"!", "m", "e", "m", "e">>
Cmd_meme_win == <<"!", "m", "e", "m", "e", " ", "w", "i", "n">>
Cmd_context == <<"!", "c", "o", "n", "t", "e", "x", "t">>
Cmd_clear == <<"!", "c", "l", "e", "a", "r", "_", "c", "o", "n", "t", "e", "x", "t">>
Cmd_help == <<"!", "h", "e", "l", "p", "_", "m", "e", "m", "e">>
Cmd_nope == <<"!", "n", "o", "p", "e">>

\* the names the commands are registered under
Name_meme == <<"m", "e", "m", "e">>
Name_context == <<"c", "o", "n", "t", "e", "x", "t">>
Name_clear_context == <<"c", "l", "e", "a", "r", "_", "c", "o", "n", "t", "e", "x", "t">>
Name_help_meme == <<"h", "e", "l", "p", "_", "m", "e", "m", "e">>

\* the keywords of _fallback_analysis
Kw_roast == <<"r", "o", "a", "s", "t">>
Kw_burn == <<"b", "u", "r", "n">>
Kw_savage == <<"s", "a", "v", "a", "g", "e">>
Kw_rekt == <<"r", "e", "k", "t">>
Kw_celebration == <<"c", "e", "l", "e", "b", "r", "a", "t", "i", "o", "n">>
Kw_victory == <<"v", "i", "c", "t", "o", "r", "y">>
Kw_win == <<"w", "i", "n">>
Kw_congrats == <<"c", "o", "n", "g", "r", "a", "t", "s">>
Kw_chaos == <<"c", "h", "a", "o", "s">>
Kw_madness == <<"m", "a", "d", "n", "e", "s", "s">>
Kw_wtf == <<"w", "t", "f">>
Kw_confused == <<"c", "o", "n", "f", "u", "s", "e", "d">>

----------------------------------------------------------------------------
(* The conversation buffer *)

Entry(author, content, t) == [author |-> author, content |-> content, timestamp |-> t]

\* mutant of update_conversation_context: the new entry put in front
update_conversation_context_prepends(ctxs, channel_id, author, content, t) ==
    LET before   == IF channel_id \in DOMAIN ctxs THEN ctxs[channel_id] ELSE <<>>
        extended == <<Entry(author, content, t)>> \o before
        kept     == IF Len(extended) > MAX_CONTEXT_MESSAGES
                    THEN last_n(extended, MAX_CONTEXT_MESSAGES)
                    ELSE extended
    IN  [c \in DOMAIN ctxs \cup {channel_id} |-> IF c = channel_id THEN kept ELSE ctxs[c]]

\* mutant of update_conversation_context: the truncation left out
update_conversation_context_uncapped(ctxs, channel_id, author, content, t) ==
    LET before == IF channel_id \in DOMAIN ctxs THEN ctxs[channel_id] ELSE <<>>
        appended == Append(before, Entry(author, content, t))
    IN  [c \in DOMAIN ctxs \cup {channel_id} |->
            IF c = channel_id THEN appended ELSE ctxs[c]]

\* update_conversation_context: the mapping after recording one message
update_conversation_context(ctxs, channel_id, author, content, t) ==
    LET before   == IF channel_id \in DOMAIN ctxs THEN ctxs[channel_id] ELSE <<>>
        appended == Append(before, Entry(author, content, t))
        kept     == IF Len(appended) > MAX_CONTEXT_MESSAGES
                    THEN last_n(appended, MAX_CONTEXT_MESSAGES)
                    ELSE appended
    IN  [c \in DOMAIN ctxs \cup {channel_id} |-> IF c = channel_id THEN kept ELSE ctxs[c]]

\* mutant of the del statement: conversation_contexts.clear(), every channel dropped
delete_all_contexts(ctxs, channel_id) ==
    [c \in {} |-> <<>>]

\* del conversation_contexts[channel_id]
delete_context(ctxs, channel_id) ==
    [c \in DOMAIN ctxs \ {channel_id} |-> ctxs[c]]

\* mutant of clear_context: the list emptied, the key kept
clear_context_keeps_key(ctxs, channel_id) ==
    IF channel_id \in DOMAIN ctxs
    THEN [ctxs |-> [c \in DOMAIN ctxs |-> IF c = channel_id THEN <<>> ELSE ctxs[c]],
          sends |-> "context_cleared"]
    ELSE [ctxs |-> ctxs, sends |-> "no_context_to_clear"]

\* clear_context: the mapping afterwards and the message sent
clear_context(ctxs, channel_id) ==
    IF channel_id \in DOMAIN ctxs
    THEN [ctxs |-> delete_context(ctxs, channel_id), sends |-> "context_cleared"]
    ELSE [ctxs |-> ctxs, sends |-> "no_context_to_clear"]

\* show_context: the message sent, with the entries it lists
show_context(ctxs, channel_id) ==
    IF channel_id \in DOMAIN ctxs /\ Len(ctxs[channel_id]) > 0
    THEN [sends |-> "context", entries |-> last_n(ctxs[channel_id], CONTEXT_WINDOW)]
    ELSE [sends |-> "no_context", entries |-> <<>>]

\* [msg['content'] for msg in conversation_contexts[channel_id][-5:]]
recent_messages(ctxs, channel_id) ==
    LET recent == last_n(ctxs[channel_id], CONTEXT_WINDOW)
    IN  [i \in 1..Len(recent) |-> recent[i].content]

----------------------------------------------------------------------------
(* Results of calls: a returned value or a raised exception *)

Return(v) == [tag |-> "return", val |-> v]
Raise(e) == [tag |-> "raise", val |-> e]

\* Python's None, among values that are otherwise strings
None == "None"

\* the empty dict
EmptyDict == [k \in {} |-> ""]

----------------------------------------------------------------------------
(* The mood analyzer *)

ROAST_WORDS == <<Kw_roast, Kw_burn, Kw_savage, Kw_rekt>>
CELEBRATION_WORDS == <<Kw_celebration, Kw_victory, Kw_win, Kw_congrats>>
CHAOS_WORDS == <<Kw_chaos, Kw_madness, Kw_wtf, Kw_confused>>

\* any(word in text for word in words)
any_word_in(words, text) == \E i \in 1..Len(words) : contains(text, words[i])

\* mutant of _fallback_analysis: only the last five messages scanned
fallback_analysis_last_five(messages) ==
    LET text == lower(join(<<" ">>, last_n(messages, CONTEXT_WINDOW)))
    IN  IF any_word_in(ROAST_WORDS, text)
        THEN [mood |-> "roast", search_query |-> "savage burn gif", confidence |-> "low"]
        ELSE IF any_word_in(CELEBRATION_WORDS, text)
        THEN [mood |-> "celebration", search_query |-> "celebration victory gif",
              confidence |-> "low"]
        ELSE IF any_word_in(CHAOS_WORDS, text)
        THEN [mood |-> "chaos", search_query |-> "confused chaos gif", confidence |-> "low"]
        ELSE [mood |-> "neutral", search_query |-> "reaction gif", confidence |-> "low"]

\* mutant of _fallback_analysis: chaos tested before celebration
fallback_analysis_chaos_first(messages) ==
    LET text == lower(join(<<" ">>, messages))
    IN  IF any_word_in(ROAST_WORDS, text)
        THEN [mood |-> "roast", search_query |-> "savage burn gif", confidence |-> "low"]
        ELSE IF any_word_in(CHAOS_WORDS, text)
        THEN [mood |-> "chaos", search_query |-> "confused chaos gif", confidence |-> "low"]
        ELSE IF any_word_in(CELEBRATION_WORDS, text)
        THEN [mood |-> "celebration", search_query |-> "celebration victory gif",
              confidence |-> "low"]
        ELSE [mood |-> "neutral", search_query |-> "reaction gif", confidence |-> "low"]

\* _fallback_analysis
fallback_analysis(messages) ==
    LET text == lower(join(<<" ">>, messages))
    IN  IF any_word_in(ROAST_WORDS, text)
        THEN [mood |-> "roast", search_query |-> "savage burn gif", confidence |-> "low"]
        ELSE IF any_word_in(CELEBRATION_WORDS, text)
        THEN [mood |-> "celebration", search_query |-> "celebration victory gif",
              confidence |-> "low"]
        ELSE IF any_word_in(CHAOS_WORDS, text)
        THEN [mood |-> "chaos", search_query |-> "confused chaos gif", confidence |-> "low"]
        ELSE [mood |-> "neutral", search_query |-> "reaction gif", confidence |-> "low"]

(* The reasoning service's reply is a sequence of tokens: prose, an opening *)
(* or a closing brace, or one "key": "value" member of a JSON object.       *)
Tok(k, v) == [v |-> v, k |-> k]
LB == Tok("{", "")
RB == Tok("}", "")
PROSE == Tok("prose", "")

\* result_text.find("{"), result_text.rfind("}"), 1-based
find_first(text, tok) == CHOOSE i \in 1..Len(text) :
    text[i] = tok /\ \A j \in 1..(i - 1) : text[j] # tok
find_last(text, tok) == CHOOSE i \in 1..Len(text) :
    text[i] = tok /\ \A j \in (i + 1)..Len(text) : text[j] # tok
has_token(text, tok) == \E i \in 1..Len(text) : text[i] = tok

\* json.loads of a token sequence: one object of members, the last value of a
\* repeated key winning
json_loads(toks) ==
    IF /\ Len(toks) >= 2
       /\ toks[1] = LB
       /\ toks[Len(toks)] = RB
       /\ \A i \in 2..(Len(toks) - 1) : toks[i].k \notin {"{", "}", "prose"}
    THEN LET members == 2..(Len(toks) - 1)
             keys == {toks[i].k : i \in members}
             at(key) == CHOOSE i \in members :
                 toks[i].k = key /\ \A j \in members : toks[j].k = key => j <= i
         IN  Return([key \in keys |-> toks[at(key)].v])
    ELSE Raise("JSONDecodeError")

\* the conversation text _analyze_with_gemini embeds in its prompt
gemini_prompt(messages) == join(<<"\n">>, last_n(messages, CONTEXT_WINDOW))

\* _analyze_with_gemini, given what the service does
analyze_with_gemini(messages, svc) ==
    IF svc.raises THEN Raise("ServiceError")
    ELSE IF has_token(svc.text, LB) /\ has_token(svc.text, RB)
    THEN json_loads(SubSeq(svc.text, find_first(svc.text, LB), find_last(svc.text, RB)))
    ELSE Raise("ValueError")

\* mutant of analyze_conversation_mood: the except clause left out
analyze_conversation_mood_no_except(key, messages, svc) ==
    IF key THEN analyze_with_gemini(messages, svc)
    ELSE Return(fallback_analysis(messages))

\* analyze_conversation_mood
analyze_conversation_mood(key, messages, svc) ==
    LET r == IF key THEN analyze_with_gemini(messages, svc)
             ELSE Return(fallback_analysis(messages))
    IN  IF r.tag = "raise" THEN Return(fallback_analysis(messages)) ELSE r

----------------------------------------------------------------------------
(* The GIF selector *)

fallback_gifs == <<"https://media.tenor.com/example1.gif",
                   "https://media.tenor.com/example2.gif",
                   "https://media.tenor.com/example3.gif">>

\* a JSON value that is no object
Scalar(s) == [scalar |-> s]
is_scalar(v) == "scalar" \in DOMAIN v

\* d.get(key, default)
dict_get(d, key, default) == IF key \in DOMAIN d THEN d[key] ELSE default

\* gif.get('media_formats', {}).get('gif', {}).get('url')
gif_url_of(gif) ==
    IF is_scalar(gif) THEN Raise("AttributeError")
    ELSE LET formats == dict_get(gif, "media_formats", EmptyDict)
         IN  IF is_scalar(formats) THEN Raise("AttributeError")
             ELSE LET g == dict_get(formats, "gif", EmptyDict)
                  IN  IF is_scalar(g) THEN Raise("AttributeError")
                      ELSE Return(dict_get(g, "url", None))

\* the body of get_recommended_gif's try block, given the service's response
\* and the two random choices
fetch_gif(key, resp, fb, ri) ==
    IF ~key THEN Return(fallback_gifs[fb])
    ELSE IF resp.raises THEN Raise("ClientError")
    ELSE IF resp.status = 200
    THEN IF ~resp.json_ok THEN Raise("ContentTypeError")
         ELSE IF /\ "results" \in DOMAIN resp.data
                 /\ Len(resp.data["results"]) > 0
         THEN gif_url_of(resp.data["results"][ri])
         ELSE Return(fallback_gifs[fb])
    ELSE Return(fallback_gifs[fb])

\* the indices random.choice(data['results']) can draw
result_choices(resp) ==
    IF ~resp.raises /\ resp.status = 200 /\ resp.json_ok /\ "results" \in DOMAIN resp.data
       /\ Len(resp.data["results"]) > 0
    THEN 1..Len(resp.data["results"])
    ELSE {1}

\* the indices random.choice(self.fallback_gifs) can draw
fallback_choices == 1..Len(fallback_gifs)

\* mutant of get_recommended_gif: the except clause left out
get_recommended_gif_no_except(key, resp, fb, ri) == fetch_gif(key, resp, fb, ri)

\* mutant of get_recommended_gif: the return after the session block left out
get_recommended_gif_no_final_fallback(key, resp, fb, ri) ==
    IF ~key \/ resp.raises THEN Return(fallback_gifs[fb])
    ELSE IF resp.status # 200 THEN Return(None)
    ELSE IF ~resp.json_ok THEN Return(fallback_gifs[fb])
    ELSE IF "results" \in DOMAIN resp.data /\ Len(resp.data["results"]) > 0
    THEN LET r == gif_url_of(resp.data["results"][ri])
         IN  IF r.tag = "raise" THEN Return(fallback_gifs[fb]) ELSE r
    ELSE Return(None)

\* get_recommended_gif
get_recommended_gif(key, resp, fb, ri) ==
    LET r == fetch_gif(key, resp, fb, ri)
    IN  IF r.tag = "raise" THEN Return(fallback_gifs[fb]) ELSE r

NoOut == [sends |-> "none", entries |-> <<>>, op |-> "none", channel |-> 0]
NoCall == [fn |-> "none"]
NoTasks == <<>>

----------------------------------------------------------------------------
(* The buffer specification: the buffer's operations applied in any order  *)
(* to any channels.                                                        *)

BufInit ==
    /\ GEMINI_API_KEY = FALSE
    /\ TENOR_API_KEY = FALSE
    /\ conversation_contexts = <<>>
    /\ now = 0
    /\ recorded = [c \in Channels |-> <<>>]
    /\ out = NoOut
    /\ tasks = NoTasks
    /\ call = NoCall

BufRecord(c) ==
    /\ now < MaxRecords
    /\ conversation_contexts' =
           update_conversation_context(conversation_contexts, c, "ann", Txt_hi, now)
    /\ recorded' = [recorded EXCEPT ![c] = Append(@, Entry("ann", Txt_hi, now))]
    /\ now' = now + 1
    /\ out' = [sends |-> "none", entries |-> <<>>, op |-> "record", channel |-> c]
    /\ UNCHANGED <<GEMINI_API_KEY, TENOR_API_KEY, tasks, call>>

BufClear(c) ==
    LET r == clear_context(conversation_contexts, c)
    IN  /\ conversation_contexts' = r.ctxs
        /\ recorded' = [recorded EXCEPT ![c] = <<>>]
        /\ out' = [sends |-> r.sends, entries |-> <<>>, op |-> "clear", channel |-> c]
        /\ UNCHANGED <<GEMINI_API_KEY, TENOR_API_KEY, now, tasks, call>>

BufShow(c) ==
    LET r == show_context(conversation_contexts, c)
    IN  /\ out' = [sends |-> r.sends, entries |-> r.entries, op |-> "show", channel |-> c]
        /\ UNCHANGED <<GEMINI_API_KEY, TENOR_API_KEY, conversation_contexts, now,
                       recorded, tasks, call>>

\* the buffer access of a recommendation run (main.py:220-224, 257-258)
BufRead(c) ==
    /\ out' = IF c \in DOMAIN conversation_contexts
              THEN [sends |-> "none",
                    entries |-> recent_messages(conversation_contexts, c),
                    op |-> "read", channel |-> c]
              ELSE [sends |-> "absent", entries |-> <<>>, op |-> "read", channel |-> c]
    /\ UNCHANGED <<GEMINI_API_KEY, TENOR_API_KEY, conversation_contexts, now,
                   recorded, tasks, call>>

BufNext ==
    \E c \in Channels : BufRecord(c) \/ BufClear(c) \/ BufShow(c) \/ BufRead(c)

SpecBuffer == BufInit /\ [][BufNext]_vars

----------------------------------------------------------------------------
(* Claims about the buffer, checked under SpecBuffer *)

Min(a, b) == IF a <= b THEN a ELSE b

\* the last k elements of h, in h's order
Suffix(h, k) == [i \in 1..k |-> h[Len(h) - k + i]]

\* C1: in every reachable state, after any interleaving of records, clears and
\* recommendation reads over the channels, every channel's buffered sequence
\* has length at most 10.
C1_BufferAtMostTen ==
    \A c \in DOMAIN conversation_contexts : Len(conversation_contexts[c]) <= 10

\* a channel that has overflowed: more than 10 records since its last clear,
\* with a full buffer
C1_Witness ==
    \E c \in DOMAIN conversation_contexts :
        Len(recorded[c]) > 10 /\ Len(conversation_contexts[c]) = 10

\* C2: with no intervening clear, the buffer holds the min(10, number recorded)
\* most recently recorded entries in recording order, a read of the last 5
\* (show_context, a recommendation run) returns exactly the min(5, 10, number
\* recorded) most recent of them in that order, and once more than 10 entries
\* have been recorded the first recorded one is absent.
C2_RecentIsNewestSuffix ==
    /\ \A c \in Channels :
           IF c \in DOMAIN conversation_contexts
           THEN conversation_contexts[c] = Suffix(recorded[c], Min(10, Len(recorded[c])))
           ELSE recorded[c] = <<>>
    /\ out.op = "show" =>
           LET h == recorded[out.channel]
           IN  out.entries = Suffix(h, Min(5, Min(10, Len(h))))
    /\ out.op = "read" =>
           LET h == recorded[out.channel]
               k == Min(5, Min(10, Len(h)))
           IN  out.entries = [i \in 1..k |-> Suffix(h, k)[i].content]
    /\ \A c \in DOMAIN conversation_contexts :
           Len(recorded[c]) > 10 =>
               \A i \in 1..Len(conversation_contexts[c]) :
                   conversation_contexts[c][i] # recorded[c][1]

\* the last 5 shown on a channel after exactly 11 records
C2_Witness ==
    /\ out.op = "show"
    /\ Len(recorded[out.channel]) = 11
    /\ Len(out.entries) = 5
    /\ out.entries[5] = recorded[out.channel][11]
    /\ out.entries[1] = recorded[out.channel][7]

\* C3: a clear removes the channel's entry entirely, so that a following read
\* of that channel returns empty; clearing a channel that has no entry changes
\* nothing and is reported as "nothing to clear", clearing one that has an
\* entry is reported as "cleared".
C3_ClearRemovesAndIsIdempotent ==
    [][/\ \A c \in Channels :
              (out'.op = "clear" /\ out'.channel = c) =>
                  /\ c \notin DOMAIN conversation_contexts'
                  /\ \A d \in Channels \ {c} :
                         /\ (d \in DOMAIN conversation_contexts')
                                = (d \in DOMAIN conversation_contexts)
                         /\ d \in DOMAIN conversation_contexts =>
                                conversation_contexts'[d] = conversation_contexts[d]
                  /\ c \in DOMAIN conversation_contexts =>
                         out'.sends = "context_cleared"
                  /\ c \notin DOMAIN conversation_contexts =>
                         /\ conversation_contexts' = conversation_contexts
                         /\ out'.sends = "no_context_to_clear"
       /\ (out.op = "clear" /\ out'.op \in {"show", "read"} /\ out'.channel = out.channel) =>
              /\ out'.entries = <<>>
              /\ out'.sends \in {"no_context", "absent"}
      ]_vars

\* a clear of a channel without an entry, reported as nothing to clear, while
\* the other channel keeps its context
C3_Witness ==
    /\ out.op = "clear"
    /\ out.sends = "no_context_to_clear"
    /\ conversation_contexts # <<>>

----------------------------------------------------------------------------
(* The analyzer specification: one call of analyze_conversation_mood on    *)
(* each input, credential setting and behaviour of the reasoning service.  *)

\* longest message list enumerated in full
MaxInputLen == 2

AnalyzeTexts == {Txt_hi, Txt_REKT, Txt_win, Txt_wtf, Txt_wtf_win, Txt_rekt_win,
                 Txt_Window, Txt_w, Txt_in, Txt_spec_example}

RECURSIVE SeqsUpTo(_, _)
SeqsUpTo(S, n) ==
    IF n = 0 THEN {<<>>}
    ELSE LET shorter == SeqsUpTo(S, n - 1)
         IN  shorter \cup {Append(q, x) : q \in shorter, x \in S}

\* message lists longer than the prompt's window: one text followed by five others
LongInputs == {<<x, Txt_w, Txt_in, Txt_hi, Txt_in, Txt_hi>> : x \in AnalyzeTexts}

AnalyzeInputs == SeqsUpTo(AnalyzeTexts, MaxInputLen) \cup LongInputs

T_mood == Tok("mood", "hype")
T_query == Tok("search_query", "hype gif")
T_conf == Tok("confidence", "high")
T_conf_level == Tok("confidence", "level")

GeminiReplies == {
    <<PROSE>>,
    <<LB, T_mood, T_query, T_conf, RB>>,
    <<PROSE, LB, T_mood, T_query, T_conf, RB, PROSE>>,
    <<PROSE, LB, T_mood, T_query, T_conf, RB, PROSE, LB, RB>>,
    <<LB, T_mood, RB>>,
    <<LB, RB>>,
    <<LB, T_mood, T_query, T_conf_level, RB>>,
    <<LB, PROSE, RB>>,
    <<LB, T_mood, T_query, T_conf>>,
    <<RB, PROSE, LB>> }

GeminiBehaviours ==
    {[text |-> <<>>, raises |-> TRUE]} \cup {[text |-> r, raises |-> FALSE] : r \in GeminiReplies}

Pending == [tag |-> "pending", val |-> ""]

AnInit ==
    /\ GEMINI_API_KEY \in BOOLEAN
    /\ TENOR_API_KEY = FALSE
    /\ conversation_contexts = <<>>
    /\ now = 0
    /\ recorded = [c \in Channels |-> <<>>]
    /\ out = NoOut
    /\ tasks = NoTasks
    /\ \E messages \in AnalyzeInputs, svc \in GeminiBehaviours :
           call = [messages |-> messages, svc |-> svc, fn |-> "analyze",
                   state |-> "called", result |-> Pending, prompt |-> None]

Analyze ==
    /\ call.fn = "analyze"
    /\ call.state = "called"
    /\ call' = [call EXCEPT
           !.state = "returned",
           !.prompt = IF GEMINI_API_KEY THEN gemini_prompt(call.messages) ELSE None,
           !.result = analyze_conversation_mood(GEMINI_API_KEY, call.messages, call.svc)]
    /\ UNCHANGED <<GEMINI_API_KEY, TENOR_API_KEY, conversation_contexts, now, recorded,
                   out, tasks>>

AnNext == Analyze

SpecAnalyze == AnInit /\ [][AnNext]_vars

(* Claims about the analyzer, checked under SpecAnalyze *)

\* the reply holds no JSON object: no opening or no closing brace
ReplyWithoutJson(text) ==
    \/ \A i \in 1..Len(text) : text[i].k # "{"
    \/ \A i \in 1..Len(text) : text[i].k # "}"

\* the reply's text from its first "{" to its last "}" is no JSON object
ReplyUnparseable(text) ==
    /\ ~ReplyWithoutJson(text)
    /\ json_loads(SubSeq(text, find_first(text, LB), find_last(text, RB))).tag = "raise"

\* the reasoning service fails: no credential, the call throws, a reply without
\* JSON, a reply with unparseable JSON
ReasoningFails ==
    \/ ~GEMINI_API_KEY
    \/ call.svc.raises
    \/ ReplyWithoutJson(call.svc.text)
    \/ ReplyUnparseable(call.svc.text)

\* C5: analyze never signals failure to its caller: for every input and every
\* behaviour of the reasoning service it returns a result, and when there is no
\* credential, the call throws, or the reply holds no JSON or unparseable JSON,
\* the result is exactly the keyword fallback's result for the same input.
C5_AnalyzeNeverRaises ==
    call.state = "returned" =>
        /\ call.result.tag = "return"
        /\ ReasoningFails => call.result.val = fallback_analysis(call.messages)

\* the service throws mid-request on the test's kind of input, and the
\* keyword fallback's roast result comes back
C5_Witness ==
    /\ call.state = "returned"
    /\ GEMINI_API_KEY
    /\ call.svc.raises
    /\ call.messages = <<Txt_spec_example>>
    /\ call.result = Return([mood |-> "roast", search_query |-> "savage burn gif",
                             confidence |-> "low"])

ConfidenceLevels == {"high", "medium", "low", "manual", "random"}

\* C6: every value returned by analyze is a valid MoodAnalysis: it has the three
\* fields mood, search_query and confidence, with confidence one of high,
\* medium, low, manual, random, for every possible reply of the reasoning
\* service (a reply whose JSON lacks the fields being replaced by the fallback).
C6_AlwaysValidMoodAnalysis ==
    call.state = "returned" =>
        /\ call.result.tag = "return"
        /\ DOMAIN call.result.val = {"mood", "search_query", "confidence"}
        /\ call.result.val["confidence"] \in ConfidenceLevels

\* C7: without a reasoning credential the lower-cased concatenation of the
\* messages is classified by priority roast > celebration > chaos > neutral;
\* confidence is always "low", search_query is never empty, the empty list
\* yields neutral and the specification's example sentence yields roast.
C7_FallbackBuckets ==
    (call.state = "returned" /\ ~GEMINI_API_KEY) =>
        LET text == lower(join(<<" ">>, call.messages))
            occurs(words) == \E w \in words : contains(text, w)
            r == call.result.val
        IN  /\ call.result.tag = "return"
            /\ r.confidence = "low"
            /\ r.search_query # ""
            /\ r.mood \in {"roast", "celebration", "chaos", "neutral"}
            /\ r.mood = "roast" <=> occurs({Kw_roast, Kw_burn, Kw_savage, Kw_rekt})
            /\ r.mood = "celebration" <=>
                   /\ ~occurs({Kw_roast, Kw_burn, Kw_savage, Kw_rekt})
                   /\ occurs({Kw_celebration, Kw_victory, Kw_win, Kw_congrats})
            /\ r.mood = "chaos" <=>
                   /\ ~occurs({Kw_roast, Kw_burn, Kw_savage, Kw_rekt})
                   /\ ~occurs({Kw_celebration, Kw_victory, Kw_win, Kw_congrats})
                   /\ occurs({Kw_chaos, Kw_madness, Kw_wtf, Kw_confused})
            /\ r.mood = "roast" => r.search_query = "savage burn gif"
            /\ r.mood = "celebration" => r.search_query = "celebration victory gif"
            /\ r.mood = "chaos" => r.search_query = "confused chaos gif"
            /\ r.mood = "neutral" => r.search_query = "reaction gif"
            /\ call.messages = <<>> => r.mood = "neutral"
            /\ call.messages = <<Txt_spec_example>> => r.mood = "roast"

\* a chaos keyword and a celebration keyword in different messages:
\* celebration wins
C7_Witness ==
    /\ call.state = "returned"
    /\ ~GEMINI_API_KEY
    /\ call.messages = <<Txt_wtf, Txt_Window>>
    /\ call.result.val.mood = "celebration"

----------------------------------------------------------------------------
(* The selector specification: one call of get_recommended_gif on each     *)
(* credential setting and response of the media-search service.            *)

GifWithUrl(u) == [media_formats |-> [gif |-> [url |-> u]]]
GifNoFormats == EmptyDict
GifNoGif == [media_formats |-> EmptyDict]
GifNoUrl == [media_formats |-> [gif |-> EmptyDict]]

TenorUrl1 == "https://media.tenor.com/found1.gif"
TenorUrl2 == "https://media.tenor.com/found2.gif"

TenorResults == {
    <<>>,
    <<GifWithUrl(TenorUrl1)>>,
    <<GifWithUrl(TenorUrl1), GifWithUrl(TenorUrl2)>>,
    <<GifNoFormats>>,
    <<GifNoGif>>,
    <<GifNoUrl>>,
    <<GifWithUrl("")>>,
    <<GifWithUrl(TenorUrl1), GifNoUrl>>,
    <<Scalar("oops")>>,
    <<[media_formats |-> Scalar("oops")]>> }

Response(raises, status, json_ok, data) ==
    [raises |-> raises, status |-> status, json_ok |-> json_ok, data |-> data]

TenorResponses ==
    {Response(TRUE, 0, FALSE, EmptyDict),
     Response(FALSE, 500, FALSE, EmptyDict),
     Response(FALSE, 429, TRUE, EmptyDict),
     Response(FALSE, 200, FALSE, EmptyDict),
     Response(FALSE, 200, TRUE, EmptyDict)}
    \cup {Response(FALSE, 200, TRUE, [results |-> r]) : r \in TenorResults}

SearchQueries == {"savage burn gif", "celebration victory gif", "confused chaos gif",
                  "reaction gif", "funny reaction gif", "hype gif"}

SelInit ==
    /\ GEMINI_API_KEY = FALSE
    /\ TENOR_API_KEY \in BOOLEAN
    /\ conversation_contexts = <<>>
    /\ now = 0
    /\ recorded = [c \in Channels |-> <<>>]
    /\ out = NoOut
    /\ tasks = NoTasks
    /\ \E q \in SearchQueries, resp \in TenorResponses :
           call = [search_query |-> q, resp |-> resp, fn |-> "select",
                   state |-> "called", result |-> Pending]

Select ==
    /\ call.fn = "select"
    /\ call.state = "called"
    /\ \E fb \in fallback_choices, ri \in result_choices(call.resp) :
           call' = [call EXCEPT
               !.state = "returned",
               !.result = get_recommended_gif(TENOR_API_KEY, call.resp, fb, ri)]
    /\ UNCHANGED <<GEMINI_API_KEY, TENOR_API_KEY, conversation_contexts, now, recorded,
                   out, tasks>>

SelNext == Select

SpecSelect == SelInit /\ [][SelNext]_vars

----------------------------------------------------------------------------
(* Claims about the selector, checked under SpecSelect *)

FallbackUrls == {"https://media.tenor.com/example1.gif",
                 "https://media.tenor.com/example2.gif",
                 "https://media.tenor.com/example3.gif"}

\* a success response whose result list is empty or missing
EmptyResults(resp) ==
    /\ ~resp.raises
    /\ resp.status = 200
    /\ resp.json_ok
    /\ ("results" \in DOMAIN resp.data => resp.data["results"] = <<>>)

\* the media search cannot supply a result
CannotSupply(key, resp) ==
    \/ ~key
    \/ resp.raises
    \/ resp.status # 200
    \/ EmptyResults(resp)

\* every value get_recommended_gif can return for a credential setting and a response
select_outcomes(key, resp) ==
    {get_recommended_gif(key, resp, fb, ri) :
        fb \in fallback_choices, ri \in result_choices(resp)}

\* C8: select returns a member of the fixed 3-URL fallback list whenever the
\* media search cannot supply a result (no credential, non-success status,
\* network error, empty result list); the empty-result case has the same set
\* of possible outcomes as the no-credential case.
C8_FallbackWhenNoResult ==
    /\ (call.state = "returned" /\ CannotSupply(TENOR_API_KEY, call.resp)) =>
           /\ call.result.tag = "return"
           /\ call.result.val \in FallbackUrls
    /\ Cardinality(FallbackUrls) = 3
    /\ EmptyResults(call.resp) =>
           /\ select_outcomes(TRUE, call.resp) = select_outcomes(FALSE, call.resp)
           /\ select_outcomes(TRUE, call.resp) = {Return(u) : u \in FallbackUrls}

\* a configured credential, a success response with an empty result list, and
\* the third fallback URL returned
C8_Witness ==
    /\ call.state = "returned"
    /\ TENOR_API_KEY
    /\ call.resp = Response(FALSE, 200, TRUE, [results |-> <<>>])
    /\ call.result = Return("https://media.tenor.com/example3.gif")

\* the value at media_formats.gif.url of a result, None where the path is missing
UrlAt(gif) ==
    IF "media_formats" \in DOMAIN gif
       /\ "gif" \in DOMAIN gif["media_formats"]
       /\ "url" \in DOMAIN gif["media_formats"]["gif"]
    THEN gif["media_formats"]["gif"]["url"]
    ELSE None

----------------------------------------------------------------------------
(* The message handler.  A task is one on_message coroutine.  Its pc names  *)
(* the await it is suspended in: the reasoning service ("gemini"), the      *)
(* media search ("tenor") or a send to the channel ("send"); the code       *)
(* between two awaits runs without interruption on the event loop, so each  *)
(* action below runs a task from one await to the next.                     *)

BOT == "bot"

NewTask(m) ==
    [msg |-> m, pc |-> "start", path |-> "none", input |-> <<>>, analyzed |-> FALSE,
     analysis |-> EmptyDict, gif_url |-> None, sending |-> "none", replies |-> <<>>,
     failed |-> {}, raised |-> {}, err |-> "none"]

\* bot = commands.Bot(command_prefix='!')
command_prefix == <<"!">>

\* the end of the first word of text from position i on
RECURSIVE word_end(_, _)
word_end(text, i) ==
    IF i > Len(text) \/ text[i] = " " THEN i - 1 ELSE word_end(text, i + 1)

\* the first position from i on that holds no space
RECURSIVE skip_ws(_, _)
skip_ws(text, i) ==
    IF i <= Len(text) /\ text[i] = " " THEN skip_ws(text, i + 1) ELSE i

\* str.strip() of trailing spaces
RECURSIVE rstrip(_)
rstrip(text) ==
    IF Len(text) > 0 /\ text[Len(text)] = " " THEN rstrip(SubSeq(text, 1, Len(text) - 1))
    ELSE text

\* the command a message invokes: "none" without the prefix, "unknown" for a
\* name no command is registered under
invoked_command(content) ==
    IF Len(content) < 1 \/ SubSeq(content, 1, 1) # command_prefix THEN "none"
    ELSE LET name == SubSeq(content, 2, word_end(content, 2))
         IN  IF name = Name_meme THEN "meme"
             ELSE IF name = Name_context THEN "context"
             ELSE IF name = Name_clear_context THEN "clear_context"
             ELSE IF name = Name_help_meme THEN "help_meme"
             ELSE IF name = <<>> THEN "none"
             ELSE "unknown"

\* the rest of the message after the command's name, the keyword-only
\* argument of recommend_meme; empty when there is none (context = None)
command_argument(content) ==
    rstrip(SubSeq(content, skip_ws(content, word_end(content, 2) + 1), Len(content)))

\* the coroutine has returned: its locals are gone, what it sent and what it
\* raised stays on record
finished(t) ==
    [t EXCEPT !.pc = "done", !.sending = "none", !.input = <<>>, !.analyzed = FALSE,
              !.analysis = EmptyDict, !.gif_url = None]

\* an await of channel.send / ctx.send begins
suspend_send(t, what) == [t EXCEPT !.pc = "send", !.sending = what]

\* mutant of the except clauses: recommend_meme only logs, as
\* auto_recommend_meme does
pipeline_exception_only_logs(t) ==
    IF t.path = "auto"
    THEN finished([t EXCEPT !.failed = @ \cup {"auto"}])
    ELSE finished([t EXCEPT !.failed = @ \cup {"manual"}])

\* an exception reaches the except clause of the running entry point:
\* auto_recommend_meme logs it (main.py:244-245), recommend_meme logs it and
\* sends the failure notice (main.py:279-281)
pipeline_exception(t) ==
    IF t.path = "auto"
    THEN finished([t EXCEPT !.failed = @ \cup {"auto"}])
    ELSE suspend_send([t EXCEPT !.failed = @ \cup {"manual"}], "failure_notice")

\* if gif_url: build the embed and send it; else (manual path) send the
\* "couldn't find" notice (main.py:232-242, 266-277)
after_gif(t, gif) ==
    LET t1 == [t EXCEPT !.gif_url = gif]
    IN  IF gif \notin {None, ""}
        THEN IF {"mood", "search_query", "confidence"} \subseteq DOMAIN t.analysis
             THEN suspend_send(t1, "recommendation")
             ELSE pipeline_exception(t1)
        ELSE IF t.path = "auto" THEN finished(t1)
        ELSE suspend_send(t1, "not_found")

\* gif_url = await meme_recommender.get_recommended_gif(analysis['search_query'])
after_analysis(t, analysis, fb) ==
    LET t1 == [t EXCEPT !.analysis = analysis]
    IN  IF "search_query" \notin DOMAIN analysis THEN pipeline_exception(t1)
        ELSE IF TENOR_API_KEY THEN [t1 EXCEPT !.pc = "tenor"]
        ELSE after_gif(t1, get_recommended_gif(FALSE, EmptyDict, fb, 1).val)

\* analysis = await meme_recommender.analyze_conversation_mood(messages)
start_analyze(t, messages, fb) ==
    LET t1 == [t EXCEPT !.input = messages, !.analyzed = TRUE]
    IN  IF GEMINI_API_KEY THEN [t1 EXCEPT !.pc = "gemini"]
        ELSE after_analysis(t1, analyze_conversation_mood(FALSE, messages, EmptyDict).val, fb)

\* auto_recommend_meme, up to its first await
auto_recommend_meme(t, ctxs, fb) ==
    LET t1 == [t EXCEPT !.path = "auto", !.input = <<>>, !.analyzed = FALSE,
                        !.analysis = EmptyDict, !.gif_url = None]
    IN  IF t.msg.channel \notin DOMAIN ctxs THEN finished(t1)
        ELSE start_analyze(t1, recent_messages(ctxs, t.msg.channel), fb)

\* on_message after process_commands: if random.random() < 0.15
after_commands(t, ctxs, coin, fb) ==
    IF coin THEN auto_recommend_meme(t, ctxs, fb)
    ELSE finished(t)

\* a command's callback raises: the command framework dispatches
\* on_command_error (main.py:342-350), whose else branch sends a notice, and
\* process_commands returns
command_raised(t, ctxs, coin, fb) ==
    after_commands([t EXCEPT !.raised = @ \cup {t.path}, !.err = "sending"], ctxs, coin, fb)

\* mutant of recommend_meme: the buffered history used even when inline text
\* is given
recommend_meme_prefers_history(t, ctxs, context, fb) ==
    LET t1 == [t EXCEPT !.path = "manual"]
    IN  IF t.msg.channel \in DOMAIN ctxs
        THEN start_analyze(t1, recent_messages(ctxs, t.msg.channel), fb)
        ELSE IF context # <<>>
        THEN start_analyze(t1, <<context>>, fb)
        ELSE after_analysis(t1, [mood |-> "random", search_query |-> "funny reaction gif",
                                 confidence |-> "manual"], fb)

\* recommend_meme, up to its first await
recommend_meme(t, ctxs, context, fb) ==
    LET t1 == [t EXCEPT !.path = "manual"]
    IN  IF context # <<>>
        THEN start_analyze(t1, <<context>>, fb)
        ELSE IF t.msg.channel \in DOMAIN ctxs
        THEN start_analyze(t1, recent_messages(ctxs, t.msg.channel), fb)
        ELSE after_analysis(t1, [mood |-> "random", search_query |-> "funny reaction gif",
                                 confidence |-> "manual"], fb)

\* bot.process_commands, up to the first await: the task and the mapping
process_commands(t, ctxs, coin, fb) ==
    LET cmd == invoked_command(t.msg.content)
        t1  == [t EXCEPT !.path = "command"]
    IN  IF cmd = "meme"
        THEN [ctxs |-> ctxs,
              task |-> recommend_meme(t, ctxs, command_argument(t.msg.content), fb)]
        ELSE IF cmd = "context"
        THEN [ctxs |-> ctxs,
              task |-> suspend_send(t1, show_context(ctxs, t.msg.channel).sends)]
        ELSE IF cmd = "clear_context"
        THEN [ctxs |-> clear_context(ctxs, t.msg.channel).ctxs,
              task |-> suspend_send(t1, clear_context(ctxs, t.msg.channel).sends)]
        ELSE IF cmd = "help_meme"
        THEN [ctxs |-> ctxs, task |-> suspend_send(t1, "help")]
        ELSE [ctxs |-> ctxs, task |-> after_commands(t, ctxs, coin, fb)]

\* mutant of on_message: the check for the bot's own messages left out
on_message_no_self_check(m, ctxs, t, coin, fb) ==
    process_commands(NewTask(m),
        update_conversation_context(ctxs, m.channel, m.author, m.content, t),
        coin, fb)

\* on_message, up to its first await: the task and the mapping
on_message(m, ctxs, t, coin, fb) ==
    IF m.author = BOT THEN [ctxs |-> ctxs, task |-> finished(NewTask(m))]
    ELSE process_commands(NewTask(m),
             update_conversation_context(ctxs, m.channel, m.author, m.content, t),
             coin, fb)

\* messages delivered in a run of the bot specification
MaxMsgs == 2

\* what users write, and what the bot itself is seen to write
BotTexts == {Txt_win, Cmd_meme, Cmd_meme_win, Cmd_context, Cmd_clear}
SelfTexts == {Cmd_meme}

\* the draws of random.choice(self.fallback_gifs) the bot specification follows;
\* the selector specification follows all of them
BotFallbackChoices == {1}

\* what the reasoning service and the media search do in the bot specification
BotGeminiBehaviours ==
    {[text |-> <<>>, raises |-> TRUE],
     [text |-> <<PROSE, LB, T_mood, T_query, T_conf, RB>>, raises |-> FALSE],
     [text |-> <<LB, T_mood, RB>>, raises |-> FALSE]}

BotTenorResponses ==
    {Response(TRUE, 0, FALSE, EmptyDict),
     Response(FALSE, 200, TRUE, [results |-> <<GifWithUrl(TenorUrl1)>>]),
     Response(FALSE, 200, TRUE, [results |-> <<GifNoUrl>>])}

Init ==
    /\ GEMINI_API_KEY \in BOOLEAN
    /\ TENOR_API_KEY \in BOOLEAN
    /\ conversation_contexts = <<>>
    /\ now = 0
    /\ recorded = [c \in Channels |-> <<>>]
    /\ out = NoOut
    /\ tasks = NoTasks
    /\ call = NoCall

\* the history of a channel after message m is handled up to its first await
recorded_after(m, t) ==
    IF m.author = BOT THEN recorded
    ELSE IF invoked_command(m.content) = "clear_context"
    THEN [recorded EXCEPT ![m.channel] = <<>>]
    ELSE [recorded EXCEPT ![m.channel] = Append(@, Entry(m.author, m.content, t))]

\* on_message runs on message m up to its first await
Receive(m) ==
    /\ \E coin \in BOOLEAN, fb \in BotFallbackChoices :
           LET r == on_message(m, conversation_contexts, now, coin, fb)
           IN  /\ tasks' = Append(tasks, r.task)
               /\ conversation_contexts' = r.ctxs
    /\ recorded' = recorded_after(m, now)
    /\ now' = now + 1
    /\ UNCHANGED <<GEMINI_API_KEY, TENOR_API_KEY, out, call>>

\* mutant of the delivery: the host stops dispatching once a handler has failed
Deliver_stops_after_failure(m) ==
    /\ now < MaxMsgs
    /\ \A i \in 1..Len(tasks) :
           tasks[i].failed = {} /\ tasks[i].raised = {} /\ tasks[i].err # "failed"
    /\ Receive(m)

\* the host delivers a message
Deliver(m) ==
    /\ now < MaxMsgs
    /\ Receive(m)

\* model.generate_content_async returns or raises
GeminiReturns(i) ==
    /\ tasks[i].pc = "gemini"
    /\ \E svc \in BotGeminiBehaviours, fb \in BotFallbackChoices :
           tasks' = [tasks EXCEPT ![i] =
               after_analysis(tasks[i],
                   analyze_conversation_mood(TRUE, tasks[i].input, svc).val, fb)]
    /\ UNCHANGED <<GEMINI_API_KEY, TENOR_API_KEY, conversation_contexts, now, recorded,
                   out, call>>

\* the media search returns or raises
TenorReturns(i) ==
    /\ tasks[i].pc = "tenor"
    /\ \E resp \in BotTenorResponses, fb \in BotFallbackChoices :
           \E ri \in result_choices(resp) :
               tasks' = [tasks EXCEPT ![i] =
                   after_gif(tasks[i], get_recommended_gif(TRUE, resp, fb, ri).val)]
    /\ UNCHANGED <<GEMINI_API_KEY, TENOR_API_KEY, conversation_contexts, now, recorded,
                   out, call>>

\* the task after its send returned (ok) or raised
after_send(t, ok, ctxs, coin, fb) ==
    LET sent == [t EXCEPT !.replies = Append(@, [path |-> t.path, kind |-> t.sending])]
    IN  IF t.path = "auto"
        THEN IF ok THEN finished(sent)
             ELSE pipeline_exception(t)
        ELSE IF t.path = "manual"
        THEN IF ok THEN after_commands(sent, ctxs, coin, fb)
             ELSE IF t.sending = "failure_notice" THEN command_raised(t, ctxs, coin, fb)
             ELSE pipeline_exception(t)
        ELSE IF ok THEN after_commands(sent, ctxs, coin, fb)
             ELSE command_raised(t, ctxs, coin, fb)

\* a send to the channel returns or raises
SendReturns(i) ==
    /\ tasks[i].pc = "send"
    /\ \E ok \in BOOLEAN, coin \in BOOLEAN, fb \in BotFallbackChoices :
           tasks' = [tasks EXCEPT ![i] =
               after_send(tasks[i], ok, conversation_contexts, coin, fb)]
    /\ UNCHANGED <<GEMINI_API_KEY, TENOR_API_KEY, conversation_contexts, now, recorded,
                   out, call>>

\* on_command_error's send returns or raises
ErrorHandlerReturns(i) ==
    /\ tasks[i].err = "sending"
    /\ \E ok \in BOOLEAN :
           tasks' = [tasks EXCEPT ![i] =
               IF ok THEN [@ EXCEPT !.err = "sent",
                              !.replies = Append(@, [path |-> "error", kind |-> "command_error"])]
               ELSE [@ EXCEPT !.err = "failed"]]
    /\ UNCHANGED <<GEMINI_API_KEY, TENOR_API_KEY, conversation_contexts, now, recorded,
                   out, call>>

Message(c, a, content) == [author |-> a, content |-> content, channel |-> c]

Next ==
    \/ \E c \in Channels, content \in BotTexts : Deliver(Message(c, "ann", content))
    \/ \E c \in Channels, content \in SelfTexts : Deliver(Message(c, BOT, content))
    \/ \E i \in 1..Len(tasks) : GeminiReturns(i)
    \/ \E i \in 1..Len(tasks) : TenorReturns(i)
    \/ \E i \in 1..Len(tasks) : SendReturns(i)
    \/ \E i \in 1..Len(tasks) : ErrorHandlerReturns(i)

Spec == Init /\ [][Next]_vars

----------------------------------------------------------------------------
(* The handler on one channel without service credentials: three messages   *)
(* among a plain text, the recommend command and the clear command, so that *)
(* a clear and a further message arrive while a command is still replying.  *)

\* messages delivered in a run of the one-channel specification
MaxChannelMsgs == 3

ChannelTexts == {Txt_win, Cmd_meme, Cmd_clear}

ChannelInit ==
    /\ GEMINI_API_KEY = FALSE
    /\ TENOR_API_KEY = FALSE
    /\ conversation_contexts = <<>>
    /\ now = 0
    /\ recorded = [c \in Channels |-> <<>>]
    /\ out = NoOut
    /\ tasks = NoTasks
    /\ call = NoCall

ChannelDeliver(m) ==
    /\ now < MaxChannelMsgs
    /\ Receive(m)

ChannelNext ==
    \/ \E content \in ChannelTexts : ChannelDeliver(Message(1, "ann", content))
    \/ \E i \in 1..Len(tasks) : SendReturns(i)
    \/ \E i \in 1..Len(tasks) : ErrorHandlerReturns(i)

SpecChannel == ChannelInit /\ [][ChannelNext]_vars

----------------------------------------------------------------------------
(* The handler when every external call returns or fails in the end and     *)
(* every send succeeds: the event loop resumes each suspended handler once  *)
(* its awaited call has completed, which is weak fairness of each handler's *)
(* return steps.                                                            *)

\* messages delivered in a run of the fair specification
MaxLiveMsgs == 2

LiveTexts == {Txt_win, Cmd_meme, Cmd_meme_win}

LiveDeliver(m) ==
    /\ now < MaxLiveMsgs
    /\ Receive(m)

\* the reasoning service's call of handler i returns or raises
GeminiCompletes(i) ==
    /\ i \in 1..Len(tasks)
    /\ GeminiReturns(i)

\* the media search's call of handler i returns or raises
TenorCompletes(i) ==
    /\ i \in 1..Len(tasks)
    /\ TenorReturns(i)

\* the send of handler i returns without raising
SendSucceeds(i) ==
    /\ i \in 1..Len(tasks)
    /\ tasks[i].pc = "send"
    /\ \E coin \in BOOLEAN, fb \in BotFallbackChoices :
           tasks' = [tasks EXCEPT ![i] =
               after_send(tasks[i], TRUE, conversation_contexts, coin, fb)]
    /\ UNCHANGED <<GEMINI_API_KEY, TENOR_API_KEY, conversation_contexts, now, recorded,
                   out, call>>

LiveNext ==
    \/ \E c \in Channels, content \in LiveTexts : LiveDeliver(Message(c, "ann", content))
    \/ \E i \in 1..MaxLiveMsgs : GeminiCompletes(i)
    \/ \E i \in 1..MaxLiveMsgs : TenorCompletes(i)
    \/ \E i \in 1..MaxLiveMsgs : SendSucceeds(i)

\* handler i is suspended in the reasoning service's call: GeminiCompletes(i)
\* is enabled exactly then, and each of its steps ends the suspension
AwaitsGemini(i) ==
    /\ i \in 1..Len(tasks)
    /\ tasks[i].pc = "gemini"

\* No handler stays suspended for ever: weak fairness of each handler's
\* return steps.  For the reasoning service's call it is written out on the
\* handler's position, []<>~ENABLED being what WF_vars(GeminiCompletes(i))
\* amounts to when every step of the action disables it.
SpecLive ==
    /\ Init
    /\ [][LiveNext]_vars
    /\ \A i \in 1..MaxLiveMsgs :
           /\ []<>(~AwaitsGemini(i))
           /\ WF_vars(TenorCompletes(i))
           /\ WF_vars(SendSucceeds(i))

----------------------------------------------------------------------------
(* Claims about the message handler, checked under Spec *)

\* the message delivered by a step, when the step delivers one
Delivered == tasks'[Len(tasks')].msg

\* C4: a channel's buffered sequence changes only by a record for that channel
\* or a clear of that channel.  A step that changes a channel's buffer is the
\* delivery of a user's message on that channel; the delivery appends exactly
\* that message's entry, keeping the newest 10 (or, for the clear command,
\* removes the channel's entry) and leaves every other channel alone, also when it starts a
\* recommendation run or the show-context command; and the steps of
\* recommendation runs and command replies change no buffer.
C4_BufferFrame ==
    [][/\ Len(tasks') = Len(tasks) => conversation_contexts' = conversation_contexts
       /\ Len(tasks') # Len(tasks) =>
              /\ Len(tasks') = Len(tasks) + 1
              /\ \A c \in Channels :
                     (c # Delivered.channel \/ Delivered.author = BOT) =>
                         /\ (c \in DOMAIN conversation_contexts')
                                = (c \in DOMAIN conversation_contexts)
                         /\ c \in DOMAIN conversation_contexts =>
                                conversation_contexts'[c] = conversation_contexts[c]
              /\ (Delivered.author # BOT /\ Delivered.content = Cmd_clear) =>
                     Delivered.channel \notin DOMAIN conversation_contexts'
              /\ (Delivered.author # BOT /\ Delivered.content # Cmd_clear) =>
                     /\ Delivered.channel \in DOMAIN conversation_contexts'
                     /\ LET h == Append(IF Delivered.channel \in DOMAIN conversation_contexts
                                         THEN conversation_contexts[Delivered.channel]
                                         ELSE <<>>,
                                         Entry(Delivered.author, Delivered.content, now))
                        IN  conversation_contexts'[Delivered.channel] =
                                Suffix(h, Min(Len(h), MAX_CONTEXT_MESSAGES))
      ]_vars

\* two recommendation runs suspended at once on the same channel, whose
\* buffer holds both their messages
C4_Witness ==
    \E i, j \in 1..Len(tasks) :
        /\ i # j
        /\ tasks[i].msg.channel = tasks[j].msg.channel
        /\ tasks[i].path \in {"manual", "auto"} /\ tasks[i].pc \in {"gemini", "tenor", "send"}
        /\ tasks[j].path \in {"manual", "auto"} /\ tasks[j].pc \in {"gemini", "tenor", "send"}
        /\ tasks[i].msg.channel \in DOMAIN conversation_contexts
        /\ Len(conversation_contexts[tasks[i].msg.channel]) = 2

\* C10: neither dispatcher entry point (the automatic run, the manual
\* recommend command) ever propagates an exception to its caller, whatever
\* fails inside the pipeline, the sending of the failure notice included.
C10_EntryPointsNeverRaise ==
    \A i \in 1..Len(tasks) : tasks[i].raised \cap {"manual", "auto"} = {}

\* the replies task t sent on path p of kind k
replies_of(t, p, k) == {n \in 1..Len(t.replies) : t.replies[n] = [path |-> p, kind |-> k]}

\* C11: whenever an exception is raised anywhere in a recommendation run, on
\* the automatic path as well as on the manual path, the user receives exactly
\* one generic failure notice for that run and no recommendation.
C11_ExactlyOneFailureNotice ==
    \A i \in 1..Len(tasks) :
        tasks[i].pc = "done" =>
            \A p \in tasks[i].failed :
                /\ Cardinality(replies_of(tasks[i], p, "failure_notice")) = 1
                /\ replies_of(tasks[i], p, "recommendation") = {}

\* C12: external-service errors never reach the end user as a failure: whatever
\* the reasoning service or the media search returns to a manual recommend
\* command (an error, a non-success status, a malformed or incomplete payload),
\* the command goes on to a recommendation, never to a failure notice or a
\* "could not find" notice.
C12_ServiceErrorsNeverSurface ==
    [][\A i \in 1..Len(tasks) :
           (tasks[i].path = "manual" /\ tasks[i].pc \in {"gemini", "tenor"}) =>
               tasks'[i].sending \notin {"failure_notice", "not_found"}
      ]_vars

\* C13: a manual recommend command with non-empty inline text passes exactly
\* that one string to the analyzer, whatever the channel's buffer holds; so
\* the analyzer input (and, where the keyword analysis decides, the analysis)
\* is a function of the command alone.
C13_InlineTextSoleInput ==
    \A i \in 1..Len(tasks) :
        LET t == tasks[i]
            arg == command_argument(t.msg.content)
        IN  (/\ t.msg.author # BOT
             /\ invoked_command(t.msg.content) = "meme"
             /\ arg # <<>>
             /\ t.path = "manual"
             /\ t.pc # "done") =>
                /\ t.analyzed
                /\ t.input = <<arg>>
                /\ t.msg.content = Cmd_meme_win => t.input = <<Txt_win>>
                /\ ~GEMINI_API_KEY => t.analysis = fallback_analysis(<<arg>>)
                /\ (~GEMINI_API_KEY /\ t.msg.content = Cmd_meme_win) =>
                       t.analysis.mood = "celebration"

\* a command with inline text is running on a channel whose buffer holds an
\* earlier message besides the command
C13_Witness ==
    \E i \in 1..Len(tasks) :
        /\ tasks[i].msg.content = Cmd_meme_win
        /\ tasks[i].path = "manual"
        /\ tasks[i].pc = "send"
        /\ tasks[i].sending = "recommendation"
        /\ tasks[i].input = <<Txt_win>>
        /\ tasks[i].msg.channel \in DOMAIN conversation_contexts
        /\ Len(conversation_contexts[tasks[i].msg.channel]) = 2
        /\ conversation_contexts[tasks[i].msg.channel][1].content = Cmd_context

\* the analysis recommend_meme uses when the channel has no context
FixedAnalysis == [mood |-> "random", search_query |-> "funny reaction gif",
                  confidence |-> "manual"]

\* C14: a manual recommend command without inline text uses the last 5
\* buffered messages of its channel as analyzer input when the channel has
\* context, and the fixed analysis, without calling the analyzer, when no
\* context exists for the channel: in particular when the command is the first
\* message seen in the channel, or the first after a clear.
C14_ManualWithoutText ==
    [][(/\ Len(tasks') = Len(tasks) + 1
        /\ Delivered.author # BOT
        /\ invoked_command(Delivered.content) = "meme"
        /\ command_argument(Delivered.content) = <<>>) =>
           LET t == tasks'[Len(tasks')]
               c == Delivered.channel
           IN  IF c \in DOMAIN conversation_contexts
               THEN LET b == conversation_contexts'[c]
                        k == Min(Len(b), CONTEXT_WINDOW)
                    IN  /\ t.analyzed
                        /\ t.input = [n \in 1..k |-> b[Len(b) - k + n].content]
               ELSE /\ ~t.analyzed
                    /\ t.analysis = FixedAnalysis
      ]_vars

\* C15: for each channel the buffer holds messages strictly in arrival order,
\* under every interleaving of the handlers: its entries carry strictly
\* increasing arrival times and are the newest entries of what arrived on the
\* channel since its last clear, also while the handler of an earlier message
\* is still suspended.
C15_ArrivalOrder ==
    \A c \in DOMAIN conversation_contexts :
        LET b == conversation_contexts[c]
        IN  /\ \A i, j \in 1..Len(b) : i < j => b[i].timestamp < b[j].timestamp
            /\ Len(b) <= Len(recorded[c])
            /\ b = Suffix(recorded[c], Len(b))

\* B arrived on A's channel while A's handler is still suspended, and A's
\* entry precedes B's
C15_Witness ==
    /\ Len(tasks) = 2
    /\ tasks[1].msg.channel = tasks[2].msg.channel
    /\ tasks[1].pc \in {"gemini", "tenor", "send"}
    /\ tasks[1].msg.content = Cmd_meme
    /\ tasks[2].msg.content = Txt_win
    /\ tasks[1].msg.channel \in DOMAIN conversation_contexts
    /\ Len(conversation_contexts[tasks[1].msg.channel]) = 2
    /\ conversation_contexts[tasks[1].msg.channel][1].content = Cmd_meme
    /\ conversation_contexts[tasks[1].msg.channel][2].content = Txt_win

\* some recommendation run or command has failed
SomeRunFailed ==
    \E i \in 1..Len(tasks) :
        tasks[i].failed # {} \/ tasks[i].raised # {} \/ tasks[i].err = "failed"

C19_SelfMessagesIgnored ==
    /\ \A c \in DOMAIN conversation_contexts :
           \A i \in 1..Len(conversation_contexts[c]) :
               conversation_contexts[c][i].author # BOT
    /\ \A i \in 1..Len(tasks) :
           tasks[i].msg.author = BOT =>
               /\ tasks[i].pc = "done"
               /\ tasks[i].path = "none"
               /\ ~tasks[i].analyzed
               /\ tasks[i].replies = <<>>
               /\ tasks[i].failed = {} /\ tasks[i].raised = {} /\ tasks[i].err = "none"

\* the bot saw its own message on a channel that has context, and only the
\* user's message is in the buffer
C19_Witness ==
    /\ Len(tasks) = 2
    /\ tasks[1].msg.author # BOT
    /\ tasks[2].msg.author = BOT
    /\ tasks[2].msg.channel = tasks[1].msg.channel
    /\ tasks[2].msg.channel \in DOMAIN conversation_contexts
    /\ Len(conversation_contexts[tasks[2].msg.channel]) = 1

----------------------------------------------------------------------------
(* Further claims about the analyzer, checked under SpecAnalyze *)

\* C17: when the analyzer is given more than 5 messages, the reasoning-service
\* path embeds only the last 5, in chronological order, in its prompt, whereas
\* the keyword fallback scans all of them: a keyword that occurs only in a
\* message older than the last 5 still decides the fallback's bucket.
C17_PromptWindowFallbackAll ==
    (call.state = "returned" /\ Len(call.messages) > 5) =>
        LET m == call.messages
            n == Len(m)
            text == lower(join(<<" ">>, m))
            occurs(words) == \E w \in words : contains(text, w)
            r == call.result.val
        IN  /\ GEMINI_API_KEY =>
                   call.prompt = m[n - 4] \o <<"\n">> \o m[n - 3] \o <<"\n">> \o m[n - 2]
                                 \o <<"\n">> \o m[n - 1] \o <<"\n">> \o m[n]
            /\ ReasoningFails =>
                   /\ r.mood = "roast" <=> occurs({Kw_roast, Kw_burn, Kw_savage, Kw_rekt})
                   /\ r.mood = "celebration" <=>
                          /\ ~occurs({Kw_roast, Kw_burn, Kw_savage, Kw_rekt})
                          /\ occurs({Kw_celebration, Kw_victory, Kw_win, Kw_congrats})
                   /\ r.mood = "chaos" <=>
                          /\ ~occurs({Kw_roast, Kw_burn, Kw_savage, Kw_rekt})
                          /\ ~occurs({Kw_celebration, Kw_victory, Kw_win, Kw_congrats})
                          /\ occurs({Kw_chaos, Kw_madness, Kw_wtf, Kw_confused})
                   /\ m[1] = Txt_REKT => r.mood = "roast"

\* six messages, the roast keyword only in the oldest: the prompt leaves it
\* out, the service throws, and the fallback answers roast
C17_Witness ==
    /\ call.state = "returned"
    /\ GEMINI_API_KEY
    /\ call.svc.raises
    /\ call.messages = <<Txt_REKT, Txt_w, Txt_in, Txt_hi, Txt_in, Txt_hi>>
    /\ ~contains(lower(call.prompt), Kw_rekt)
    /\ call.result.val.mood = "roast"

\* the reply holds a balanced object that is a valid analysis, and a brace
\* after it
ValidObjectThenBraces(text) ==
    \E i, j \in 1..Len(text) :
        /\ i < j
        /\ text[i] = LB /\ text[j] = RB
        /\ \A n \in 1..(i - 1) : text[n] # LB
        /\ \A n \in (i + 1)..(j - 1) : text[n] \notin {LB, RB, PROSE}
        /\ {text[n].k : n \in (i + 1)..(j - 1)} = {"mood", "search_query", "confidence"}
        /\ \E n \in (j + 1)..Len(text) : text[n] \in {LB, RB}

\* C18: when the reply holds a JSON object surrounded by prose, analyze
\* extracts the first balanced {...} and parses it: a reply whose first
\* balanced object is a valid analysis yields that analysis, also when further
\* braces occur later in the reply.
C18_FirstBalancedObject ==
    (/\ call.state = "returned"
     /\ GEMINI_API_KEY
     /\ ~call.svc.raises
     /\ ValidObjectThenBraces(call.svc.text)) =>
        call.result = Return([mood |-> "hype", search_query |-> "hype gif",
                              confidence |-> "high"])

----------------------------------------------------------------------------
(* A claim about the automatic run, checked under SpecChannel *)

\* C20: on the automatic path, the analyzer input of a run triggered by
\* message M is the last 5 buffered contents of M's channel and always
\* includes M's content, whatever arrived on the channel, clear commands
\* included, between M's recording and the start of the run.
C20_AutoInputIncludesTrigger ==
    [][\A i \in 1..Len(tasks') :
           LET t == tasks'[i]
               c == t.msg.channel
           IN  (/\ t.path = "auto"
                /\ t.analyzed
                /\ i > Len(tasks) \/ tasks[i].path # "auto") =>
                   /\ c \in DOMAIN conversation_contexts'
                   /\ LET b == conversation_contexts'[c]
                          k == Min(Len(b), 5)
                      IN  t.input = [n \in 1..k |-> b[Len(b) - k + n].content]
                   /\ \E n \in 1..Len(t.input) : t.input[n] = t.msg.content
      ]_vars

----------------------------------------------------------------------------
(* A claim about the manual command's reply, checked under SpecLive *)

\* handler i runs a recommend command of a user
IsManualCommand(i) ==
    /\ i \in 1..Len(tasks)
    /\ tasks[i].msg.author # BOT
    /\ invoked_command(tasks[i].msg.content) = "meme"

\* the replies handler i has sent from the manual path
ManualReplies(i) ==
    {n \in 1..Len(tasks[i].replies) :
        /\ tasks[i].replies[n].path = "manual"
        /\ tasks[i].replies[n].kind \in {"recommendation", "not_found", "failure_notice"}}

\* C21: when every external call returns or fails in the end and sends
\* succeed, every manual recommend command eventually produces exactly one
\* reply from the manual path (a recommendation, a "could not find" notice
\* or the failure notice): never two at any time, and one in the end.
C21_ManualReplyExactlyOnce ==
    /\ [](\A i \in 1..Len(tasks) : Cardinality(ManualReplies(i)) <= 1)
    /\ \A i \in 1..MaxLiveMsgs :
           IsManualCommand(i) ~>
               (/\ i \in 1..Len(tasks)
                /\ Cardinality(ManualReplies(i)) = 1
                /\ \A n \in 1..Len(tasks[i].replies) :
                       tasks[i].replies[n].path = "manual" => n \in ManualReplies(i))

\* a recommend command whose analysis lacked a field was answered by the
\* failure notice alone, while another command awaits the media search
C21_Witness ==
    \E i, j \in 1..Len(tasks) :
        /\ IsManualCommand(i)
        /\ tasks[i].failed = {"manual"}
        /\ tasks[i].replies = <<[path |-> "manual", kind |-> "failure_notice"]>>
        /\ IsManualCommand(j)
        /\ tasks[j].pc = "tenor"

====
